---- MODULE Spec2Model ----
(***************************************************************************)
(* Model of luke/pretraining/batch_generator.py: the batch generator (the  *)
(* consumer-facing generator with its bounded multiprocessing queue and    *)
(* liveness supervision), the batch worker process (buffering, stacking    *)
(* and trimming), and the masking functions that build the per-example     *)
(* word and entity features.                                               *)
(*                                                                         *)
(* numpy arrays are functions over 0..n-1 (0-based, as in the source).     *)
(* The arrays an Example carries (word_ids, entity_ids, ...) are           *)
(* sequences, so that enumerate(tokens, 1) is the sequence index.          *)
(***************************************************************************)
EXTENDS Integers, Sequences, FiniteSets, TLC

(***************************************************************************)
(* Bounds of the model.                                                    *)
(***************************************************************************)
MaxWords == 4
MaxEntities == 2
MaxSource == 5
MaxBatchSize == 3
MaxQueueSize == 2
ProbDen == 4

(***************************************************************************)
(* The dataset metadata the worker reads once in run().                    *)
(***************************************************************************)
max_seq_length == 5
max_entity_length == 2
max_mention_length == 2
max_candidate_length == 2

\* tokenizer.vocab: token id i (0-based) is Vocab[i + 1]; a token is its characters
Vocab ==
    << <<"[", "C", "L", "S", "]">>,
       <<"[", "S", "E", "P", "]">>,
       <<"[", "M", "A", "S", "K", "]">>,
       <<"l", "u", "k", "e">>,
       <<"#", "#", "s">> >>

vocab_size == Len(Vocab)
cls_id == 0
sep_id == 1
mask_id == 2
entity_mask_id == 9

\* the ids a source example is made of
WordTokens == {3, 4}
EntityIds == {5, 6}

(***************************************************************************)
(* numpy helpers                                                           *)
(***************************************************************************)
Min(a, b) == IF a < b THEN a ELSE b

Max(a, b) == IF a > b THEN a ELSE b

\* np.zeros(n) / np.full(n, v)
Full(n, v) == [i \in 0..(n - 1) |-> v]

\* np.full((rows, cols), v)
Full2(rows, cols, v) == [i \in 0..(rows - 1) |-> Full(cols, v)]

\* a.size of a 1-D array, a.shape[0] of a 2-D one
Size(a) == Cardinality(DOMAIN a)

\* out[:Len(src)] = src, for a sequence src that fits
AssignPrefix(out, src) ==
    [i \in DOMAIN out |-> IF i < Len(src) THEN src[i + 1] ELSE out[i]]

\* int(round(n * prob)) for prob = num / ProbDen: Python 3 rounds half to even
RoundProb(n, num) ==
    LET x == n * num
        q == x \div ProbDen
        r == x % ProbDen
    IN  IF 2 * r < ProbDen THEN q
        ELSE IF 2 * r > ProbDen THEN q + 1
        ELSE IF q % 2 = 0 THEN q ELSE q + 1

\* tokenizer.convert_ids_to_tokens(word_ids)
ConvertIdsToTokens(word_ids) == [i \in 1..Len(word_ids) |-> Vocab[word_ids[i] + 1]]

\* word.startswith('##')
StartsWithHashes(word) == Len(word) >= 2 /\ word[1] = "#" /\ word[2] = "#"

\* np.random.permutation(n), as the set of its outcomes (0-based values)
PermutationsOf(n) ==
    {p \in [1..n -> 0..(n - 1)] : \A i, j \in 1..n : p[i] = p[j] => i = j}

(***************************************************************************)
(* BaseBatchWorker._create_word_features                                   *)
(***************************************************************************)
\* line 96 raises (the prefix does not fit the padded array): the worker faults
WordFeaturesRaise(word_ids) == Len(word_ids) + 2 > max_seq_length

\* lines 95-96: [CLS] word_ids [SEP], zero-padded to max_seq_length
PaddedWordIds(word_ids) ==
    AssignPrefix(Full(max_seq_length, 0), <<cls_id>> \o word_ids \o <<sep_id>>)

\* the mask set over the tokens only, without the + 2 for the markers
WordAttentionMaskNoMarkers(word_ids) ==
    [i \in 0..(max_seq_length - 1) |-> IF i < Len(word_ids) THEN 1 ELSE 0]

\* lines 97-98
WordAttentionMask(word_ids) ==
    [i \in 0..(max_seq_length - 1) |-> IF i < Len(word_ids) + 2 THEN 1 ELSE 0]

\* the budget without its floor of 1
NumToPredictNoFloor(size, prob) == RoundProb(size, prob)

\* line 105
NumToPredict(size, prob) == Max(1, RoundProb(size, prob))

\* mutant of CandidateLoop: every token is a group of its own
RECURSIVE CandidateLoopSingletons(_, _, _, _)
CandidateLoopSingletons(tokens, whole_word_masking, i, candidate_word_indices) ==
    IF i > Len(tokens) THEN candidate_word_indices
    ELSE CandidateLoopSingletons(tokens, whole_word_masking, i + 1,
             Append(candidate_word_indices, <<i>>))

\* lines 106-112: the candidate groups, each a sequence of positions (1 for [CLS])
RECURSIVE CandidateLoop(_, _, _, _)
CandidateLoop(tokens, whole_word_masking, i, candidate_word_indices) ==
    IF i > Len(tokens) THEN candidate_word_indices
    ELSE IF whole_word_masking /\ StartsWithHashes(tokens[i]) /\ candidate_word_indices # <<>>
    THEN LET last == Len(candidate_word_indices)
         IN  CandidateLoop(tokens, whole_word_masking, i + 1,
                 [candidate_word_indices EXCEPT ![last] = Append(@, i)])
    ELSE CandidateLoop(tokens, whole_word_masking, i + 1,
             Append(candidate_word_indices, <<i>>))

CandidateWordIndices(word_ids, whole_word_masking) ==
    CandidateLoop(ConvertIdsToTokens(word_ids), whole_word_masking, 1, <<>>)

\* the outcomes of random.random() and random.randint() for one position
Draws ==
    {[p |-> "lt08", randint |-> 0], [p |-> "ge09", randint |-> 0]}
        \cup {[p |-> "lt09", randint |-> r] : r \in 0..(vocab_size - 1)}

\* the label is read after the replacement instead of before it
RECURSIVE MaskIndicesLabelAfter(_, _, _, _)
MaskIndicesLabelAfter(indices_to_mask, k, st, draw) ==
    IF k > Len(indices_to_mask) THEN st
    ELSE LET index == indices_to_mask[k]
             d == draw[index]
             ids == IF d.p = "lt08"
                        THEN [st.output_word_ids EXCEPT ![index] = mask_id]
                    ELSE IF d.p = "lt09"
                        THEN [st.output_word_ids EXCEPT ![index] = d.randint]
                    ELSE st.output_word_ids
             labels == [st.masked_lm_labels EXCEPT ![index] = ids[index]]
         IN  MaskIndicesLabelAfter(indices_to_mask, k + 1,
                 [masked_lm_labels |-> labels, output_word_ids |-> ids,
                  num_to_predict |-> st.num_to_predict - 1], draw)

\* lines 121-128: mask the positions indices_to_mask[k..] of one accepted group
RECURSIVE MaskIndices(_, _, _, _)
MaskIndices(indices_to_mask, k, st, draw) ==
    IF k > Len(indices_to_mask) THEN st
    ELSE LET index == indices_to_mask[k]
             d == draw[index]
             labels == [st.masked_lm_labels EXCEPT ![index] = st.output_word_ids[index]]
             ids == IF d.p = "lt08"
                        THEN [st.output_word_ids EXCEPT ![index] = mask_id]
                    ELSE IF d.p = "lt09"
                        THEN [st.output_word_ids EXCEPT ![index] = d.randint]
                    ELSE st.output_word_ids
         IN  MaskIndices(indices_to_mask, k + 1,
                 [masked_lm_labels |-> labels, output_word_ids |-> ids,
                  num_to_predict |-> st.num_to_predict - 1], draw)

\* mutant of MaskLoop: a group larger than the remaining budget is not skipped
RECURSIVE MaskLoopNoSkip(_, _, _, _, _)
MaskLoopNoSkip(candidate_word_indices, perm, k, st, draw) ==
    IF k > Len(perm) THEN st
    ELSE LET st2 == MaskIndices(candidate_word_indices[perm[k] + 1], 1, st, draw)
         IN  IF st2.num_to_predict = 0 THEN st2
             ELSE MaskLoopNoSkip(candidate_word_indices, perm, k + 1, st2, draw)

\* lines 116-131: visit the groups in the order perm[k..]
RECURSIVE MaskLoop(_, _, _, _, _)
MaskLoop(candidate_word_indices, perm, k, st, draw) ==
    IF k > Len(perm) THEN st
    ELSE LET indices_to_mask == candidate_word_indices[perm[k] + 1]
         IN  IF Len(indices_to_mask) > st.num_to_predict
             THEN MaskLoop(candidate_word_indices, perm, k + 1, st, draw)
             ELSE LET st2 == MaskIndices(indices_to_mask, 1, st, draw)
                  IN  IF st2.num_to_predict = 0 THEN st2
                      ELSE MaskLoop(candidate_word_indices, perm, k + 1, st2, draw)

\* lines 94-135, for one outcome (perm, draw) of the random generators;
\* masked_lm_prob is the numerator of the probability over ProbDen
CreateWordFeatures(word_ids, masked_lm_prob, whole_word_masking, perm, draw) ==
    LET st0 == [masked_lm_labels |-> Full(max_seq_length, -1),
                output_word_ids |-> PaddedWordIds(word_ids),
                num_to_predict |-> NumToPredict(Len(word_ids), masked_lm_prob)]
        st == MaskLoop(CandidateWordIndices(word_ids, whole_word_masking), perm, 1, st0, draw)
    IN  IF masked_lm_prob # 0
        THEN [word_ids |-> st.output_word_ids,
              word_attention_mask |-> WordAttentionMask(word_ids),
              word_segment_ids |-> Full(max_seq_length, 0),
              masked_lm_labels |-> st.masked_lm_labels]
        ELSE [word_ids |-> PaddedWordIds(word_ids),
              word_attention_mask |-> WordAttentionMask(word_ids),
              word_segment_ids |-> Full(max_seq_length, 0)]

\* every result _create_word_features can return for word_ids
WordFeatureOutcomes(word_ids, masked_lm_prob, whole_word_masking) ==
    {CreateWordFeatures(word_ids, masked_lm_prob, whole_word_masking, perm, draw) :
        perm \in PermutationsOf(Len(CandidateWordIndices(word_ids, whole_word_masking))),
        draw \in [1..Len(word_ids) -> Draws]}

(***************************************************************************)
(* LukePretrainingBatchWorker._create_entity_features (mode 'default') and *)
(* LukeE2EPretrainingBatchWorker._create_entity_features (mode 'e2e')      *)
(***************************************************************************)
\* a sequence as a 0-based array
ToArray(s) == [i \in 0..(Len(s) - 1) |-> s[i + 1]]

\* out[:Len(rows)] = rows for a 2-D array: rows is a sequence of sequences
AssignRows(out, rows) ==
    [i \in DOMAIN out |-> IF i < Len(rows) THEN ToArray(rows[i + 1]) ELSE out[i]]

\* entity_position_ids += 1: the -1 padding is shifted with the positions
ShiftPositionsAll(entity_position_ids) ==
    [r \in 1..Len(entity_position_ids) |->
        [c \in 1..Len(entity_position_ids[r]) |-> entity_position_ids[r][c] + 1]]

\* lines 156 and 181: entity_position_ids += (entity_position_ids != -1)
ShiftPositions(entity_position_ids) ==
    [r \in 1..Len(entity_position_ids) |->
        [c \in 1..Len(entity_position_ids[r]) |->
            IF entity_position_ids[r][c] # -1
            THEN entity_position_ids[r][c] + 1
            ELSE entity_position_ids[r][c]]]

\* lines 157-158 and 182-183
OutputEntityPositionIds(entity_position_ids) ==
    AssignRows(Full2(max_entity_length, max_mention_length, -1),
               ShiftPositions(entity_position_ids))

\* lines 153-154 and 185-186
EntityAttentionMask(entity_ids) ==
    [i \in 0..(max_entity_length - 1) |-> IF i < Len(entity_ids) THEN 1 ELSE 0]

\* the permutation without its [:num_to_predict] cut
ChosenEntitiesAll(entity_ids, masked_entity_prob, perm) ==
    {perm[k] : k \in 1..Len(perm)}

\* np.random.permutation(range(entity_ids.size))[:num_to_predict], as a set
ChosenEntities(entity_ids, masked_entity_prob, perm) ==
    {perm[k] : k \in 1..Min(NumToPredict(Len(entity_ids), masked_entity_prob), Len(perm))}

\* lines 167-169 and 199-201
MaskedEntityLabels(entity_ids, chosen) ==
    [i \in 0..(max_entity_length - 1) |-> IF i \in chosen THEN entity_ids[i + 1] ELSE -1]

\* lines 151 and 158 raise when the example has more rows than the padded arrays
EntityFeaturesRaise(item) ==
    \/ Len(item.entity_ids) > max_entity_length
    \/ Len(item.entity_position_ids) > max_entity_length

\* lines 149-173, for one outcome perm of np.random.permutation
CreateEntityFeatures(item, masked_entity_prob, perm) ==
    LET entity_ids == item.entity_ids
        chosen == ChosenEntities(entity_ids, masked_entity_prob, perm)
        padded == AssignPrefix(Full(max_entity_length, 0), entity_ids)
    IN  IF masked_entity_prob # 0
        THEN [entity_ids |->
                  [i \in 0..(max_entity_length - 1) |->
                      IF i \in chosen THEN entity_mask_id ELSE padded[i]],
              entity_position_ids |-> OutputEntityPositionIds(item.entity_position_ids),
              entity_attention_mask |-> EntityAttentionMask(entity_ids),
              entity_segment_ids |-> Full(max_entity_length, 0),
              masked_entity_labels |-> MaskedEntityLabels(entity_ids, chosen)]
        ELSE [entity_ids |-> padded,
              entity_position_ids |-> OutputEntityPositionIds(item.entity_position_ids),
              entity_attention_mask |-> EntityAttentionMask(entity_ids),
              entity_segment_ids |-> Full(max_entity_length, 0)]

\* lines 179, 183 and 189 raise when the example has more rows than the padded arrays
E2EEntityFeaturesRaise(item) ==
    \/ Len(item.entity_candidate_ids) > max_entity_length
    \/ Len(item.entity_position_ids) > max_entity_length
    \/ Len(item.entity_candidate_labels) > max_entity_length

\* the masking loop of the base class carried over: a chosen slot's candidates are
\* overwritten with the entity-mask id
CreateE2EEntityFeaturesMasksGrid(item, masked_entity_prob, perm) ==
    LET entity_ids == item.entity_ids
        chosen == ChosenEntities(entity_ids, masked_entity_prob, perm)
        candidate_ids == AssignRows(Full2(max_entity_length, max_candidate_length, 0),
                                    item.entity_candidate_ids)
        base == [entity_candidate_ids |-> candidate_ids,
                 entity_position_ids |-> OutputEntityPositionIds(item.entity_position_ids),
                 entity_attention_mask |-> EntityAttentionMask(entity_ids),
                 entity_segment_ids |-> Full(max_entity_length, 0),
                 entity_candidate_labels |->
                     AssignPrefix(Full(max_entity_length, -1), item.entity_candidate_labels)]
    IN  IF masked_entity_prob # 0
        THEN [f \in DOMAIN base \cup {"masked_entity_labels"} |->
                 IF f = "masked_entity_labels"
                 THEN MaskedEntityLabels(entity_ids, chosen)
                 ELSE IF f = "entity_candidate_ids"
                 THEN [i \in DOMAIN candidate_ids |->
                          IF i \in chosen
                          THEN [c \in DOMAIN candidate_ids[i] |-> entity_mask_id]
                          ELSE candidate_ids[i]]
                 ELSE base[f]]
        ELSE base

\* lines 177-204, for one outcome perm of np.random.permutation
CreateE2EEntityFeatures(item, masked_entity_prob, perm) ==
    LET entity_ids == item.entity_ids
        chosen == ChosenEntities(entity_ids, masked_entity_prob, perm)
        candidate_ids == AssignRows(Full2(max_entity_length, max_candidate_length, 0),
                                    item.entity_candidate_ids)
        candidate_labels == AssignPrefix(Full(max_entity_length, -1),
                                         item.entity_candidate_labels)
    IN  IF masked_entity_prob # 0
        THEN [entity_candidate_ids |-> candidate_ids,
              entity_position_ids |-> OutputEntityPositionIds(item.entity_position_ids),
              entity_attention_mask |-> EntityAttentionMask(entity_ids),
              entity_segment_ids |-> Full(max_entity_length, 0),
              entity_candidate_labels |-> candidate_labels,
              masked_entity_labels |-> MaskedEntityLabels(entity_ids, chosen)]
        ELSE [entity_candidate_ids |-> candidate_ids,
              entity_position_ids |-> OutputEntityPositionIds(item.entity_position_ids),
              entity_attention_mask |-> EntityAttentionMask(entity_ids),
              entity_segment_ids |-> Full(max_entity_length, 0),
              entity_candidate_labels |-> candidate_labels]

\* the worker class's _create_entity_features, dispatched on the class
EntityFeaturesRaiseOf(worker_cls, item) ==
    IF worker_cls = "LukeE2EPretrainingBatchWorker"
    THEN E2EEntityFeaturesRaise(item)
    ELSE EntityFeaturesRaise(item)

EntityFeatureOutcomes(worker_cls, item, masked_entity_prob) ==
    IF worker_cls = "LukeE2EPretrainingBatchWorker"
    THEN {CreateE2EEntityFeatures(item, masked_entity_prob, perm) :
             perm \in PermutationsOf(Len(item.entity_ids))}
    ELSE {CreateEntityFeatures(item, masked_entity_prob, perm) :
             perm \in PermutationsOf(Len(item.entity_ids))}

(***************************************************************************)
(* The shapes of the feature arrays.  The worker's stacking and the        *)
(* hand-off read nothing of a feature array but its shape, so the buffer   *)
(* and the batches keep each array's shape instead of its contents.        *)
(***************************************************************************)
TwoDimFields == {"entity_position_ids", "entity_candidate_ids"}

\* a.shape of every array of one feature dict
ShapesOf(feat) ==
    [k \in DOMAIN feat |->
        IF k \in TwoDimFields THEN <<Size(feat[k]), Size(feat[k][0])>>
        ELSE <<Size(feat[k])>>]

\* the shape of a[:n]
SliceShape(shape, n) == [shape EXCEPT ![1] = Min(n, shape[1])]

(***************************************************************************)
(* The examples the dataset iterator can yield, and the arguments the      *)
(* generator is constructed with.                                          *)
(***************************************************************************)
SourceExamples ==
    { [word_ids |-> <<>>, entity_ids |-> <<>>, entity_position_ids |-> <<>>,
       entity_candidate_ids |-> <<>>, entity_candidate_labels |-> <<>>],
      [word_ids |-> <<3>>, entity_ids |-> <<5, 6>>,
       entity_position_ids |-> << <<0, -1>>, <<0, -1>> >>,
       entity_candidate_ids |-> << <<5, 6>>, <<6, 0>> >>,
       entity_candidate_labels |-> <<0, 0>>],
      [word_ids |-> <<3, 4>>, entity_ids |-> <<5>>,
       entity_position_ids |-> << <<0, 1>> >>,
       entity_candidate_ids |-> << <<5, 6>> >>,
       entity_candidate_labels |-> <<0>>],
      [word_ids |-> <<3, 4, 4, 3>>, entity_ids |-> <<>>, entity_position_ids |-> <<>>,
       entity_candidate_ids |-> <<>>, entity_candidate_labels |-> <<>>] }

GeneratorArgs ==
    { [mode |-> "default", masked_lm_prob |-> 2, masked_entity_prob |-> 2,
       whole_word_masking |-> TRUE],
      [mode |-> "default", masked_lm_prob |-> 1, masked_entity_prob |-> 0,
       whole_word_masking |-> FALSE],
      [mode |-> "e2e", masked_lm_prob |-> 0, masked_entity_prob |-> 1,
       whole_word_masking |-> FALSE],
      [mode |-> "bogus", masked_lm_prob |-> 1, masked_entity_prob |-> 1,
       whole_word_masking |-> FALSE] }

NoWorkerFunc ==
    [worker_cls |-> "none", batch_size |-> 0, masked_lm_prob |-> 0,
     masked_entity_prob |-> 0, whole_word_masking |-> FALSE]

NoBatch == [examples |-> <<>>, fields |-> <<>>]

(***************************************************************************)
(* State                                                                   *)
(***************************************************************************)
VARIABLES
    pc,             \* where the generator object / its consumer stands
    exc,            \* the exception propagating through the finally block
    mode,           \* the mode __init__ was called with
    worker_func,    \* self._worker_func: the worker class and its arguments
    queue_size,     \* generate_batches' argument
    output_queue,   \* the batches in the multiprocessing.Queue, oldest first
    queue_state,    \* "none", "open" or "closed"
    worker,         \* the worker process: "none", "alive", "exited", "crashed", "terminated"
    wpc,            \* where run() stands: "init", "loop", "put" or "gone"
    buf,            \* run()'s buf
    max_word_len,   \* run()'s max_word_len
    max_entity_len, \* run()'s max_entity_len
    batch,          \* run()'s batch, built and not yet put
    pulled,         \* the number of examples the dataset iterator has yielded
    pushed,         \* history: the source indices of each batch put, in order
    received,       \* history: the source indices of each batch yielded, in order
    feat_call,      \* a direct call of a feature function: its arguments
    feat_ret        \* and its result

gvars == <<pc, exc, mode, worker_func, queue_size>>
wvars == <<wpc, buf, max_word_len, max_entity_len, batch, pulled>>
fvars == <<feat_call, feat_ret>>
vars == <<pc, exc, mode, worker_func, queue_size, output_queue, queue_state, worker,
          wpc, buf, max_word_len, max_entity_len, batch, pulled, pushed, received,
          feat_call, feat_ret>>

NoCall == [fn |-> "none"]

Init ==
    /\ pc = "unconstructed"
    /\ exc = "none"
    /\ mode = "none"
    /\ worker_func = NoWorkerFunc
    /\ queue_size = 0
    /\ output_queue = <<>>
    /\ queue_state = "none"
    /\ worker = "none"
    /\ wpc = "init"
    /\ buf = <<>>
    /\ max_word_len = 1
    /\ max_entity_len = 1
    /\ batch = NoBatch
    /\ pulled = 0
    /\ pushed = <<>>
    /\ received = <<>>
    /\ feat_call = NoCall
    /\ feat_ret = NoCall

(***************************************************************************)
(* LukePretrainingBatchGenerator                                           *)
(*                                                                         *)
(* The multiprocessing.Queue is a bounded first-in first-out sequence: a   *)
(* batch is readable as soon as put() has returned, get(True, 1) times out *)
(* only on an empty queue, and terminate() stops the worker at once.  The  *)
(* timeout and the is_alive() test that follows are two steps, so the      *)
(* worker can act between them.                                            *)
(***************************************************************************)
\* mutant of WorkerClassOf: an unknown mode falls back to the default worker
WorkerClassOfFallback(m) ==
    IF m = "e2e" THEN "LukeE2EPretrainingBatchWorker" ELSE "LukePretrainingBatchWorker"

\* lines 17-22: the worker class of a mode, "RuntimeError" when line 22 raises
WorkerClassOf(m) ==
    IF m = "default" THEN "LukePretrainingBatchWorker"
    ELSE IF m = "e2e" THEN "LukeE2EPretrainingBatchWorker"
    ELSE "RuntimeError"

\* __init__
Construct ==
    /\ pc = "unconstructed"
    /\ \E args \in GeneratorArgs, batch_size \in 1..MaxBatchSize :
        /\ mode' = args.mode
        /\ IF WorkerClassOf(args.mode) = "RuntimeError"
           THEN /\ pc' = "config_error"
                /\ worker_func' = worker_func
           ELSE /\ pc' = "constructed"
                /\ worker_func' = [worker_cls |-> WorkerClassOf(args.mode),
                                   batch_size |-> batch_size,
                                   masked_lm_prob |-> args.masked_lm_prob,
                                   masked_entity_prob |-> args.masked_entity_prob,
                                   whole_word_masking |-> args.whole_word_masking]
    /\ UNCHANGED <<exc, queue_size, output_queue, queue_state, worker, wvars,
                   pushed, received, fvars>>

\* generate_batches, lines 29-32, run by the first next() on the generator
GenerateBatches ==
    /\ pc = "constructed"
    /\ \E size \in 1..MaxQueueSize : queue_size' = size
    /\ output_queue' = <<>>
    /\ queue_state' = "open"
    /\ worker' = "alive"
    /\ pc' = "get"
    /\ UNCHANGED <<exc, mode, worker_func, wvars, pushed, received, fvars>>

\* the indices in the source of the examples of a batch
IndicesOf(b) == [o \in 1..Len(b.examples) |-> b.examples[o].index]

\* line 37: output_queue.get(True, 1) returns a batch, which is yielded
GetBatch ==
    /\ pc = "get"
    /\ output_queue # <<>>
    /\ received' = Append(received, IndicesOf(Head(output_queue)))
    /\ output_queue' = Tail(output_queue)
    /\ pc' = "yield"
    /\ UNCHANGED <<exc, mode, worker_func, queue_size, queue_state, worker, wvars,
                   pushed, fvars>>

\* lines 37-39: the get times out on an empty queue (queue.Empty)
GetEmpty ==
    /\ pc = "get"
    /\ output_queue = <<>>
    /\ pc' = "empty"
    /\ UNCHANGED <<exc, mode, worker_func, queue_size, output_queue, queue_state, worker,
                   wvars, pushed, received, fvars>>

\* mutant of IsAlive: the test is inverted
IsAliveInverted(w) == w # "alive"

\* mutant of IsAlive: a worker that was started counts as alive for ever
IsAliveOnceStarted(w) == w # "none"

\* worker.is_alive()
IsAlive(w) == w = "alive"

\* lines 40-41
CheckAlive ==
    /\ pc = "empty"
    /\ IF ~IsAlive(worker)
       THEN pc' = "terminate" /\ exc' = "RuntimeError"
       ELSE pc' = "get" /\ exc' = exc
    /\ UNCHANGED <<mode, worker_func, queue_size, output_queue, queue_state, worker,
                   wvars, pushed, received, fvars>>

\* line 37: the get raises something other than queue.Empty
GetRaises ==
    /\ pc = "get"
    /\ pc' = "terminate"
    /\ exc' = "other"
    /\ UNCHANGED <<mode, worker_func, queue_size, output_queue, queue_state, worker,
                   wvars, pushed, received, fvars>>

\* the consumer asks for the next batch: the generator resumes after the yield
Resume ==
    /\ pc = "yield"
    /\ pc' = "get"
    /\ UNCHANGED <<exc, mode, worker_func, queue_size, output_queue, queue_state, worker,
                   wvars, pushed, received, fvars>>

\* the consumer abandons the sequence: GeneratorExit is raised at the yield
Abandon ==
    /\ pc = "yield"
    /\ pc' = "terminate"
    /\ exc' = "GeneratorExit"
    /\ UNCHANGED <<mode, worker_func, queue_size, output_queue, queue_state, worker,
                   wvars, pushed, received, fvars>>

\* mutant of Terminated: the worker is left running
TerminatedNot(w) == w

\* Process.terminate() on a worker in state w
Terminated(w) == IF w = "alive" THEN "terminated" ELSE w

\* the worker process is gone, and run()'s local variables with it
ProcessGone ==
    /\ wpc' = "gone"
    /\ buf' = <<>>
    /\ max_word_len' = 1
    /\ max_entity_len' = 1
    /\ batch' = NoBatch

\* line 43
FinallyTerminate ==
    /\ pc = "terminate"
    /\ worker' = Terminated(worker)
    /\ IF worker = "alive"
       THEN ProcessGone
       ELSE UNCHANGED <<wpc, buf, max_word_len, max_entity_len, batch>>
    /\ pc' = "close"
    /\ UNCHANGED <<exc, mode, worker_func, queue_size, output_queue, queue_state,
                   pulled, pushed, received, fvars>>

\* line 44, after which exc leaves the generator
FinallyClose ==
    /\ pc = "close"
    /\ queue_state' = "closed"
    /\ pc' = "ended"
    /\ UNCHANGED <<exc, mode, worker_func, queue_size, output_queue, worker,
                   wvars, pushed, received, fvars>>

(***************************************************************************)
(* BaseBatchWorker.run, in the worker process                              *)
(***************************************************************************)
\* lines 62-75
WorkerInit ==
    /\ worker = "alive"
    /\ wpc = "init"
    /\ wpc' = "loop"
    /\ buf' = <<>>
    /\ max_word_len' = 1
    /\ max_entity_len' = 1
    /\ UNCHANGED <<gvars, output_queue, queue_state, worker, batch, pulled,
                   pushed, received, fvars>>

\* line 77: the shapes of the features _create_word_features can return, over all
\* outcomes of its random generators, tabulated for the words of the source
WordFeatureShapes ==
    [w \in {e.word_ids : e \in SourceExamples},
     prob \in {a.masked_lm_prob : a \in GeneratorArgs},
     whole_word_masking \in BOOLEAN |->
        IF WordFeaturesRaise(w) THEN {}
        ELSE {ShapesOf(f) : f \in WordFeatureOutcomes(w, prob, whole_word_masking)}]

\* lines 78-79: the same for _create_entity_features of either worker class
EntityFeatureShapes ==
    [worker_cls \in {"LukePretrainingBatchWorker", "LukeE2EPretrainingBatchWorker"},
     item \in SourceExamples,
     prob \in {a.masked_entity_prob : a \in GeneratorArgs} |->
        IF EntityFeaturesRaiseOf(worker_cls, item) THEN {}
        ELSE {ShapesOf(f) : f \in EntityFeatureOutcomes(worker_cls, item, prob)}]

\* lines 77-79 raise for this item
ItemRaises(item) ==
    \/ WordFeaturesRaise(item.word_ids)
    \/ EntityFeaturesRaiseOf(worker_func.worker_cls, item)

\* line 80
NextMaxWordLen(current, item) == Max(current, Len(item.word_ids) + 2)

\* line 81
NextMaxEntityLen(current, item) == Max(current, Len(item.entity_ids))

\* line 82: the entry of buf (the features by their shapes), with the index of the
\* example in the source
BufEntry(index, item, word_feat, entity_feat) ==
    [index |-> index,
     word_count |-> Len(item.word_ids),
     entity_count |-> Len(item.entity_ids),
     word_feat |-> word_feat,
     entity_feat |-> entity_feat]

\* line 84
BufferFull(b) == Len(b) = worker_func.batch_size

\* lines 85-87: np.stack of every field of the buffered features, cut to the maxima
StackBatch(b, word_len, entity_len) ==
    [examples |-> [o \in 1..Len(b) |->
                      [index |-> b[o].index, word_count |-> b[o].word_count,
                       entity_count |-> b[o].entity_count]],
     fields |-> [k \in (DOMAIN b[1].word_feat) \cup (DOMAIN b[1].entity_feat) |->
                    IF k \in DOMAIN b[1].entity_feat
                    THEN [o \in 1..Len(b) |-> SliceShape(b[o].entity_feat[k], entity_len)]
                    ELSE [o \in 1..Len(b) |-> SliceShape(b[o].word_feat[k], word_len)]]]

\* lines 76-87: one example is pulled, turned into features and buffered
WorkerItem ==
    /\ worker = "alive"
    /\ wpc = "loop"
    /\ pulled < MaxSource
    /\ \E item \in SourceExamples :
        /\ ~ItemRaises(item)
        /\ \E word_feat \in WordFeatureShapes[item.word_ids, worker_func.masked_lm_prob,
                                               worker_func.whole_word_masking],
              entity_feat \in EntityFeatureShapes[worker_func.worker_cls, item,
                                                  worker_func.masked_entity_prob] :
            LET word_len == NextMaxWordLen(max_word_len, item)
                entity_len == NextMaxEntityLen(max_entity_len, item)
                b == Append(buf, BufEntry(pulled + 1, item, word_feat, entity_feat))
            IN  /\ max_word_len' = word_len
                /\ max_entity_len' = entity_len
                /\ buf' = b
                /\ IF BufferFull(b)
                   THEN batch' = StackBatch(b, word_len, entity_len) /\ wpc' = "put"
                   ELSE batch' = batch /\ wpc' = "loop"
    /\ pulled' = pulled + 1
    /\ UNCHANGED <<gvars, output_queue, queue_state, worker, pushed, received, fvars>>

\* lines 77-79 raise on the pulled example: the process dies of the exception
WorkerFault ==
    /\ worker = "alive"
    /\ wpc = "loop"
    /\ pulled < MaxSource
    /\ \E item \in SourceExamples : ItemRaises(item)
    /\ pulled' = pulled + 1
    /\ worker' = "crashed"
    /\ ProcessGone
    /\ UNCHANGED <<gvars, output_queue, queue_state, pushed, received, fvars>>

\* mutant of CanPut: one batch more than the capacity is accepted
CanPutOneMore(q, size) == Len(q) <= size

\* Queue.put(batch, True) can return: the queue has a free slot
CanPut(q, size) == Len(q) < size

\* mutant of Put: the batch overtakes the ones waiting
PutFirst(q, b) == <<b>> \o q

\* the queue after Queue.put(b): first in, first out
Put(q, b) == Append(q, b)

\* mutant of WorkerPut: the buffer is not emptied after the put
WorkerPutKeepsBuffer ==
    /\ worker = "alive"
    /\ wpc = "put"
    /\ CanPut(output_queue, queue_size)
    /\ output_queue' = Put(output_queue, batch)
    /\ pushed' = Append(pushed, IndicesOf(batch))
    /\ max_word_len' = 1
    /\ max_entity_len' = 1
    /\ wpc' = "loop"
    /\ UNCHANGED <<gvars, queue_state, worker, buf, batch, pulled, received, fvars>>

\* mutant of WorkerPut: the running maxima are not reset after the put
WorkerPutKeepsMaxima ==
    /\ worker = "alive"
    /\ wpc = "put"
    /\ CanPut(output_queue, queue_size)
    /\ output_queue' = Put(output_queue, batch)
    /\ pushed' = Append(pushed, IndicesOf(batch))
    /\ buf' = <<>>
    /\ wpc' = "loop"
    /\ UNCHANGED <<gvars, queue_state, worker, max_word_len, max_entity_len, batch,
                   pulled, received, fvars>>

\* the running maxima restart from 0 instead of 1 after the put
WorkerPutResetsToZero ==
    /\ worker = "alive"
    /\ wpc = "put"
    /\ CanPut(output_queue, queue_size)
    /\ output_queue' = Put(output_queue, batch)
    /\ pushed' = Append(pushed, IndicesOf(batch))
    /\ buf' = <<>>
    /\ max_word_len' = 0
    /\ max_entity_len' = 0
    /\ wpc' = "loop"
    /\ UNCHANGED <<gvars, queue_state, worker, batch, pulled, received, fvars>>

\* lines 88-92: the blocking put, then the reset of the buffer and the maxima
WorkerPut ==
    /\ worker = "alive"
    /\ wpc = "put"
    /\ CanPut(output_queue, queue_size)
    /\ output_queue' = Put(output_queue, batch)
    /\ pushed' = Append(pushed, IndicesOf(batch))
    /\ buf' = <<>>
    /\ max_word_len' = 1
    /\ max_entity_len' = 1
    /\ wpc' = "loop"
    /\ UNCHANGED <<gvars, queue_state, worker, batch, pulled, received, fvars>>

\* line 76: the iterator is exhausted, run() returns and the process exits
SourceEnds ==
    /\ worker = "alive"
    /\ wpc = "loop"
    /\ worker' = "exited"
    /\ ProcessGone
    /\ UNCHANGED <<gvars, output_queue, queue_state, pulled, pushed, received, fvars>>

\* line 76: the iterator raises, the process dies of the exception
SourceRaises ==
    /\ worker = "alive"
    /\ wpc = "loop"
    /\ worker' = "crashed"
    /\ ProcessGone
    /\ UNCHANGED <<gvars, output_queue, queue_state, pulled, pushed, received, fvars>>

(***************************************************************************)
(* The generator with its worker                                           *)
(***************************************************************************)
Next ==
    \/ Construct
    \/ GenerateBatches
    \/ GetBatch
    \/ GetEmpty
    \/ CheckAlive
    \/ GetRaises
    \/ Resume
    \/ Abandon
    \/ FinallyTerminate
    \/ FinallyClose
    \/ WorkerInit
    \/ WorkerItem
    \/ WorkerFault
    \/ WorkerPut
    \/ SourceEnds
    \/ SourceRaises

Spec == Init /\ [][Next]_vars

(***************************************************************************)
(* A consumer that keeps iterating: it neither abandons the sequence nor   *)
(* meets another exception.  The consumer's process is scheduled (weak     *)
(* fairness of its steps), and so is the worker's while it lives.          *)
(***************************************************************************)
ConsumerStep ==
    \/ GetBatch
    \/ GetEmpty
    \/ CheckAlive
    \/ Resume
    \/ FinallyTerminate
    \/ FinallyClose

WorkerStep ==
    \/ WorkerInit
    \/ WorkerItem
    \/ WorkerFault
    \/ WorkerPut
    \/ SourceEnds
    \/ SourceRaises

NextIterating ==
    \/ Construct
    \/ GenerateBatches
    \/ ConsumerStep
    \/ WorkerStep

LiveSpec ==
    /\ Init
    /\ [][NextIterating]_vars
    /\ WF_vars(ConsumerStep)
    /\ WF_vars(WorkerStep)

(***************************************************************************)
(* Properties of the generator and its worker                              *)
(***************************************************************************)
\* the worker process ended by itself
WorkerEnded == worker \in {"exited", "crashed"}

\* C1: while fewer than batch_size examples have been yielded nothing is pushed, and
\* once the worker has ended after fewer than batch_size examples the iterating
\* consumer is raised the worker-crashed error, having received no batch
C1_PartialBufferDropped ==
    /\ [](pulled < worker_func.batch_size => pushed = <<>>)
    /\ (WorkerEnded /\ pulled < worker_func.batch_size)
           ~> (pc = "ended" /\ exc = "RuntimeError" /\ received = <<>>)

\* the source gave two examples of the three a batch needs, and the consumer got the
\* error
C1_Witness ==
    /\ pc = "ended"
    /\ exc = "RuntimeError"
    /\ worker_func.batch_size = 3
    /\ pulled = 2
    /\ WorkerEnded
    /\ pushed = <<>>
    /\ received = <<>>

\* C2: the error is raised only by the liveness check that follows a timed-out get on
\* an empty queue and finds the worker not alive; a check that finds it alive goes
\* back to the get and raises nothing
C2_RaiseOnlyWhenDead ==
    [][ /\ (exc' = "RuntimeError" /\ exc # "RuntimeError")
            => (pc = "empty" /\ worker # "alive")
        /\ (pc' = "empty" /\ pc # "empty") => (pc = "get" /\ output_queue = <<>>)
        /\ (pc = "empty" /\ worker = "alive" /\ pc' # pc)
            => (pc' = "get" /\ exc' = "none") ]_vars

\* the error was raised after a batch had been received
C2_Witness ==
    /\ pc = "terminate"
    /\ exc = "RuntimeError"
    /\ received # <<>>

\* C3: once the sequence has ended, by whichever exit, the worker is not running
\* and the queue is closed
C3_CleanupOnEveryExit ==
    /\ pc = "close" => worker # "alive"
    /\ pc = "ended" => (worker # "alive" /\ queue_state = "closed")

\* the consumer abandoned the sequence and the running worker was terminated
C3_Witness ==
    /\ pc = "ended"
    /\ exc = "GeneratorExit"
    /\ worker = "terminated"
    /\ queue_state = "closed"

\* C4: the queue never holds more than queue_size batches, and while it is full a
\* worker at its put pulls no example and pushes nothing: the queue changes only by
\* the consumer taking its head
C4_Backpressure ==
    /\ [](Len(output_queue) <= queue_size)
    /\ [][ (worker = "alive" /\ wpc = "put" /\ Len(output_queue) >= queue_size)
             => /\ pulled' = pulled
                /\ pushed' = pushed
                /\ output_queue' = output_queue \/ output_queue' = Tail(output_queue)
                /\ worker' = "alive" => (wpc' = "put" /\ batch' = batch) ]_vars

\* the worker stands at its put with the queue full
C4_Witness ==
    /\ worker = "alive"
    /\ wpc = "put"
    /\ queue_size = 2
    /\ Len(output_queue) = queue_size

\* the batches that exist: those in the queue and the one the worker is putting
Batches ==
    {output_queue[i] : i \in 1..Len(output_queue)}
        \cup (IF worker = "alive" /\ wpc = "put" THEN {batch} ELSE {})

\* C5: every batch holds batch_size examples in every field, and a worker that ran
\* to the end of a source of n examples has pushed n \div batch_size batches
C5_FullBatchesOnly ==
    /\ \A b \in Batches :
        /\ Len(b.examples) = worker_func.batch_size
        /\ \A k \in DOMAIN b.fields : Len(b.fields[k]) = worker_func.batch_size
    /\ \A k \in 1..Len(pushed) : Len(pushed[k]) = worker_func.batch_size
    /\ worker # "none" => Len(pushed) * worker_func.batch_size <= pulled
    /\ worker = "exited" => Len(pushed) = pulled \div worker_func.batch_size

\* a source of five examples and batches of two: two batches, the fifth example dropped
C5_Witness ==
    /\ worker = "exited"
    /\ worker_func.batch_size = 2
    /\ pulled = 5
    /\ Len(pushed) = 2

WordFields == {"word_ids", "word_attention_mask", "word_segment_ids", "masked_lm_labels"}

\* the largest of a non-empty sequence of numbers
MaxOf(xs) == CHOOSE m \in {xs[i] : i \in DOMAIN xs} : \A i \in DOMAIN xs : xs[i] <= m

WordCounts(b) == [o \in DOMAIN b.examples |-> b.examples[o].word_count]

EntityCounts(b) == [o \in DOMAIN b.examples |-> b.examples[o].entity_count]

\* every row of every word field of b is word_width wide, and of every entity field
\* entity_width
HasWidths(b, word_width, entity_width) ==
    \A k \in DOMAIN b.fields :
        \A o \in DOMAIN b.fields[k] :
            b.fields[k][o][1] = (IF k \in WordFields THEN word_width ELSE entity_width)

\* C6 as claimed: the word fields are (largest word count of the batch) + 2 wide and
\* the entity fields (largest entity count of the batch) wide
C6_WidthsAsClaimed ==
    \A b \in Batches : HasWidths(b, MaxOf(WordCounts(b)) + 2, MaxOf(EntityCounts(b)))

\* C6 amended: the entity fields are max(1, largest entity count of the batch) wide
C6_Widths ==
    \A b \in Batches :
        HasWidths(b, MaxOf(WordCounts(b)) + 2, Max(1, MaxOf(EntityCounts(b))))

\* two batches of two wait in the queue; the first has word counts 2 and 1 and entity
\* counts 1 and 2, the second holds shorter examples and is narrower than the first
C6_Witness ==
    /\ Len(output_queue) = 2
    /\ worker_func.batch_size = 2
    /\ WordCounts(output_queue[1]) = <<2, 1>>
    /\ EntityCounts(output_queue[1]) = <<1, 2>>
    /\ HasWidths(output_queue[1], 4, 2)
    /\ WordCounts(output_queue[2]) = <<1, 0>>
    /\ HasWidths(output_queue[2], 3, 2)

\* C7: the k-th batch pushed holds the examples (k-1)*batch_size+1 .. k*batch_size in
\* source order, and the consumer receives the pushed batches in order, each once
C7_EachExampleOnce ==
    /\ \A k \in 1..Len(pushed) :
        pushed[k] = [o \in 1..worker_func.batch_size |->
                        (k - 1) * worker_func.batch_size + o]
    /\ Len(received) <= Len(pushed)
    /\ \A k \in 1..Len(received) : received[k] = pushed[k]
    /\ Len(received) + Len(output_queue) = Len(pushed)
    /\ \A i \in 1..Len(output_queue) :
        IndicesOf(output_queue[i]) = pushed[Len(received) + i]

\* two batches of two were pushed and both received
C7_Witness ==
    /\ worker_func.batch_size = 2
    /\ Len(pushed) = 2
    /\ Len(received) = 2

\* C8: an unrecognized mode makes __init__ raise, with no worker and no queue
\* created; a recognized mode constructs the generator and starts no worker either
C8_ConstructionError ==
    /\ (mode \notin {"none", "default", "e2e"})
           => (pc = "config_error" /\ worker = "none" /\ queue_state = "none")
    /\ (mode \in {"default", "e2e"}) => pc # "config_error"
    /\ pc \in {"constructed", "config_error"}
           => (worker = "none" /\ queue_state = "none")

\* the generator was constructed with mode "bogus"
C8_Witness ==
    /\ mode = "bogus"
    /\ pc = "config_error"
    /\ worker = "none"

(***************************************************************************)
(* _create_word_features called on its own: every word sequence up to      *)
(* MaxWords tokens, every probability k / ProbDen, both settings of        *)
(* whole_word_masking, and every outcome of the random generators.         *)
(***************************************************************************)
WordSequences == UNION {[1..n -> WordTokens] : n \in 0..MaxWords}

IdlePipeline ==
    /\ pc = "unconstructed"
    /\ exc = "none"
    /\ mode = "none"
    /\ worker_func = NoWorkerFunc
    /\ queue_size = 0
    /\ output_queue = <<>>
    /\ queue_state = "none"
    /\ worker = "none"
    /\ wpc = "init"
    /\ buf = <<>>
    /\ max_word_len = 1
    /\ max_entity_len = 1
    /\ batch = NoBatch
    /\ pulled = 0
    /\ pushed = <<>>
    /\ received = <<>>

InitWord ==
    /\ IdlePipeline
    /\ feat_call \in {[fn |-> "_create_word_features", word_ids |-> w,
                       masked_lm_prob |-> p, whole_word_masking |-> b] :
                         w \in WordSequences, p \in 0..ProbDen, b \in BOOLEAN}
    /\ feat_ret = NoCall

\* the call returns one of its outcomes, or raises
CallWordFeatures ==
    /\ feat_call.fn = "_create_word_features"
    /\ feat_ret.fn = "none"
    /\ IF WordFeaturesRaise(feat_call.word_ids)
       THEN feat_ret' = [fn |-> "raised"]
       ELSE \E perm \in PermutationsOf(Len(CandidateWordIndices(feat_call.word_ids,
                                               feat_call.whole_word_masking))),
               draw \in [1..Len(feat_call.word_ids) -> Draws] :
                feat_ret' = [fn |-> "returned",
                             value |-> CreateWordFeatures(feat_call.word_ids,
                                           feat_call.masked_lm_prob,
                                           feat_call.whole_word_masking, perm, draw)]
    /\ UNCHANGED <<gvars, output_queue, queue_state, worker, wvars, pushed, received,
                   feat_call>>

NextWord == CallWordFeatures

SpecWord == InitWord /\ [][NextWord]_vars

\* _create_word_features has returned ret for the call
WordReturned == feat_call.fn = "_create_word_features" /\ feat_ret.fn = "returned"

\* the positions masked_lm_labels marks as prediction targets
LabeledPositions(ret) ==
    {i \in DOMAIN ret.masked_lm_labels : ret.masked_lm_labels[i] # -1}

\* the integer nearest to n * num / ProbDen, a tie going to the even one
NearestInt(n, num) ==
    CHOOSE k \in 0..(n + 1) :
        LET d == IF n * num >= k * ProbDen THEN n * num - k * ProbDen
                 ELSE k * ProbDen - n * num
        IN  2 * d < ProbDen \/ (2 * d = ProbDen /\ k % 2 = 0)

\* C9: with masked_lm_prob = 0 the result has no masked_lm_labels; otherwise at most
\* max(1, round(word_count * masked_lm_prob)) positions are labeled, and each labeled
\* position i has 1 <= i <= word_count
C9_LabelBudget ==
    WordReturned =>
        LET ret == feat_ret.value
            word_count == Len(feat_call.word_ids)
        IN  IF feat_call.masked_lm_prob = 0
            THEN "masked_lm_labels" \notin DOMAIN ret
            ELSE /\ "masked_lm_labels" \in DOMAIN ret
                 /\ Cardinality(LabeledPositions(ret))
                        <= Max(1, NearestInt(word_count, feat_call.masked_lm_prob))
                 /\ \A i \in LabeledPositions(ret) : 1 <= i /\ i <= word_count

\* three words at probability 2/4: the budget of 2 is spent on two positions
C9_Witness ==
    /\ WordReturned
    /\ feat_call.masked_lm_prob = 2
    /\ Len(feat_call.word_ids) = 3
    /\ "masked_lm_labels" \in DOMAIN feat_ret.value
    /\ Cardinality(LabeledPositions(feat_ret.value)) = 2

\* C10: with whole_word_masking, a token and the '##' piece that follows it are
\* labeled together or not at all
C10_WholeWord ==
    (WordReturned /\ feat_call.whole_word_masking /\ feat_call.masked_lm_prob # 0) =>
        \A i \in 1..(Len(feat_call.word_ids) - 1) :
            StartsWithHashes(Vocab[feat_call.word_ids[i + 1] + 1]) =>
                (i \in LabeledPositions(feat_ret.value)
                    <=> (i + 1) \in LabeledPositions(feat_ret.value))

\* "luke ##s luke" with a budget of 2: the single token took one, and the two-piece
\* word, larger than what is left, was skipped whole
C10_Witness ==
    /\ WordReturned
    /\ feat_call.whole_word_masking
    /\ feat_call.masked_lm_prob = 2
    /\ feat_call.word_ids = <<3, 4, 3>>
    /\ LabeledPositions(feat_ret.value) = {3}

(***************************************************************************)
(* _create_entity_features of either worker class called on its own: every *)
(* example of up to MaxEntities entities, every probability k / ProbDen    *)
(* and every outcome of np.random.permutation.                             *)
(***************************************************************************)
\* the rows an example's entity_position_ids and entity_candidate_ids are made of
PositionRows == {<<0, -1>>, <<1, 2>>, <<-1, -1>>}

CandidateRows == {<<5, 6>>, <<6, 0>>}

EntityExamples ==
    UNION {{[word_ids |-> <<3, 4, 3>>,
             entity_ids |-> ids,
             entity_position_ids |-> positions,
             entity_candidate_ids |-> candidates,
             entity_candidate_labels |-> [i \in 1..n |-> 0]] :
               ids \in [1..n -> EntityIds],
               positions \in [1..n -> PositionRows],
               candidates \in [1..n -> CandidateRows]} : n \in 0..MaxEntities}

InitEntity ==
    /\ IdlePipeline
    /\ feat_call \in {[fn |-> "_create_entity_features", worker_cls |-> c, item |-> e,
                       masked_entity_prob |-> p] :
                         c \in {"LukePretrainingBatchWorker",
                                "LukeE2EPretrainingBatchWorker"},
                         e \in EntityExamples, p \in 0..ProbDen}
    /\ feat_ret = NoCall

\* the call returns one of its outcomes, or raises
CallEntityFeatures ==
    /\ feat_call.fn = "_create_entity_features"
    /\ feat_ret.fn = "none"
    /\ IF EntityFeaturesRaiseOf(feat_call.worker_cls, feat_call.item)
       THEN feat_ret' = [fn |-> "raised"]
       ELSE \E value \in EntityFeatureOutcomes(feat_call.worker_cls, feat_call.item,
                                               feat_call.masked_entity_prob) :
                feat_ret' = [fn |-> "returned", value |-> value]
    /\ UNCHANGED <<gvars, output_queue, queue_state, worker, wvars, pushed, received,
                   feat_call>>

NextEntity == CallEntityFeatures

SpecEntity == InitEntity /\ [][NextEntity]_vars

(***************************************************************************)
(* Claims about _create_entity_features.                                   *)
(***************************************************************************)
EntityReturned == feat_call.fn = "_create_entity_features" /\ feat_ret.fn = "returned"

DefaultMode == feat_call.worker_cls = "LukePretrainingBatchWorker"

E2EMode == feat_call.worker_cls = "LukeE2EPretrainingBatchWorker"

\* the slots masked_entity_labels marks as prediction targets
LabeledSlots(ret) ==
    {i \in DOMAIN ret.masked_entity_labels : ret.masked_entity_labels[i] # -1}

\* min(entity_count, max(1, round(entity_count * masked_entity_prob)))
EntityBudget(entity_count, num) == Min(entity_count, Max(1, NearestInt(entity_count, num)))

\* C11: in mode 'default' with masked_entity_prob = 0 the result has no
\* masked_entity_labels; otherwise exactly min(entity_count, max(1, round(entity_count
\* * masked_entity_prob))) slots are labeled, each with the slot's original entity id,
\* each labeled slot shows the entity-mask id in entity_ids, and every other real slot
\* keeps its original id
C11_DefaultEntityMasking ==
    (EntityReturned /\ DefaultMode) =>
        LET ret == feat_ret.value
            entity_ids == feat_call.item.entity_ids
            entity_count == Len(entity_ids)
        IN  IF feat_call.masked_entity_prob = 0
            THEN "masked_entity_labels" \notin DOMAIN ret
            ELSE /\ "masked_entity_labels" \in DOMAIN ret
                 /\ Cardinality(LabeledSlots(ret))
                        = EntityBudget(entity_count, feat_call.masked_entity_prob)
                 /\ \A i \in 0..(entity_count - 1) :
                        IF i \in LabeledSlots(ret)
                        THEN /\ ret.masked_entity_labels[i] = entity_ids[i + 1]
                             /\ ret.entity_ids[i] = entity_mask_id
                        ELSE ret.entity_ids[i] = entity_ids[i + 1]
                 /\ \A i \in LabeledSlots(ret) : i < entity_count

\* two entities at probability 1/4: one slot is masked and labeled, the other is kept
C11_Witness ==
    /\ EntityReturned
    /\ DefaultMode
    /\ feat_call.masked_entity_prob = 1
    /\ feat_call.item.entity_ids = <<5, 6>>
    /\ "masked_entity_labels" \in DOMAIN feat_ret.value
    /\ feat_ret.value.masked_entity_labels[1] = 6
    /\ feat_ret.value.entity_ids[1] = entity_mask_id
    /\ feat_ret.value.entity_ids[0] = 5

\* the input candidate grid, zero-padded to max_entity_length rows of
\* max_candidate_length columns
PaddedCandidateGrid(rows) ==
    [i \in 0..(max_entity_length - 1) |->
        [c \in 0..(max_candidate_length - 1) |->
            IF i < Len(rows) THEN rows[i + 1][c + 1] ELSE 0]]

\* C12: in mode 'e2e' with masked_entity_prob # 0, exactly min(entity_count, max(1,
\* round(entity_count * masked_entity_prob))) slots are labeled, each with the slot's
\* true entity id, and entity_candidate_ids is the zero-padded input candidate grid in
\* every slot, labeled or not
C12_E2ECandidatesKept ==
    (EntityReturned /\ E2EMode /\ feat_call.masked_entity_prob # 0) =>
        LET ret == feat_ret.value
            entity_ids == feat_call.item.entity_ids
            entity_count == Len(entity_ids)
        IN  /\ "masked_entity_labels" \in DOMAIN ret
            /\ Cardinality(LabeledSlots(ret))
                   = EntityBudget(entity_count, feat_call.masked_entity_prob)
            /\ \A i \in LabeledSlots(ret) :
                   i < entity_count /\ ret.masked_entity_labels[i] = entity_ids[i + 1]
            /\ ret.entity_candidate_ids
                   = PaddedCandidateGrid(feat_call.item.entity_candidate_ids)

\* two entities at probability 4/4: both slots are labeled and both candidate rows
\* are still the input's
C12_Witness ==
    /\ EntityReturned
    /\ E2EMode
    /\ feat_call.masked_entity_prob = ProbDen
    /\ feat_call.item.entity_ids = <<6, 5>>
    /\ feat_call.item.entity_candidate_ids = <<<<5, 6>>, <<6, 0>>>>
    /\ LabeledSlots(feat_ret.value) = {0, 1}
    /\ feat_ret.value.entity_candidate_ids[0][0] = 5
    /\ feat_ret.value.entity_candidate_ids[1][0] = 6

(***************************************************************************)
(* Further claims about _create_word_features, checked under SpecWord.     *)
(***************************************************************************)
\* the sum of a 0-based array of naturals
RECURSIVE SumUpTo(_, _)
SumUpTo(a, n) == IF n < 0 THEN 0 ELSE a[n] + SumUpTo(a, n - 1)

\* C13: word_attention_mask is 1 on exactly the positions 0..word_count + 1 and 0 on
\* every other position, so it sums to word_count + 2; whatever was masked, word_ids
\* holds the start marker at position 0 and the end marker at position word_count + 1
C13_MaskAndMarkers ==
    WordReturned =>
        LET ret == feat_ret.value
            word_count == Len(feat_call.word_ids)
        IN  /\ DOMAIN ret.word_attention_mask = 0..(max_seq_length - 1)
            /\ \A i \in 0..(max_seq_length - 1) :
                   ret.word_attention_mask[i] = IF i <= word_count + 1 THEN 1 ELSE 0
            /\ SumUpTo(ret.word_attention_mask, max_seq_length - 1) = word_count + 2
            /\ ret.word_ids[0] = cls_id
            /\ ret.word_ids[word_count + 1] = sep_id

\* two tokens, both labeled and both replaced by [MASK]: the markers around them stand
C13_Witness ==
    /\ WordReturned
    /\ Len(feat_call.word_ids) = 2
    /\ "masked_lm_labels" \in DOMAIN feat_ret.value
    /\ LabeledPositions(feat_ret.value) = {1, 2}
    /\ feat_ret.value.word_ids[1] = mask_id
    /\ feat_ret.value.word_ids[2] = mask_id
    /\ feat_ret.value.word_ids[3] = sep_id
    /\ feat_ret.value.word_attention_mask[3] = 1
    /\ feat_ret.value.word_attention_mask[4] = 0

(***************************************************************************)
(* Further claims about the worker and the hand-off, checked under Spec.   *)
(***************************************************************************)
\* every row of every field of b is at least 1 wide, a word field at most
\* max_seq_length and an entity field at most max_entity_length
WidthsWithinBounds(b) ==
    \A k \in DOMAIN b.fields :
        \A o \in DOMAIN b.fields[k] :
            /\ 1 <= b.fields[k][o][1]
            /\ b.fields[k][o][1] <= (IF k \in WordFields THEN max_seq_length
                                      ELSE max_entity_length)

\* C14: every batch has fields at least 1 wide, the word fields at most
\* max_seq_length and the entity fields at most max_entity_length wide; and the step
\* that pushes a batch leaves the buffer empty and both running maxima at 1
C14_BoundedWidthsAndReset ==
    [][/\ \A b \in Batches' : WidthsWithinBounds(b)
       /\ pushed' # pushed =>
              buf' = <<>> /\ max_word_len' = 1 /\ max_entity_len' = 1]_vars

\* the worker has just pushed a batch of two examples, one empty and one of two words
\* and one entity: word fields 4 wide, entity fields 1 wide, buffer and maxima reset
C14_Witness ==
    /\ worker = "alive"
    /\ wpc = "loop"
    /\ Len(pushed) = 1
    /\ pulled = 2
    /\ buf = <<>>
    /\ max_word_len = 1
    /\ max_entity_len = 1
    /\ Len(output_queue) = 1
    /\ HasWidths(output_queue[1], 4, 1)

\* C15: in both modes entity_position_ids holds, in every row of a real entity, each
\* input position p # -1 as p + 1 and each -1 as -1, and every row at or beyond the
\* entity count is -1 throughout
C15_PositionsShifted ==
    EntityReturned =>
        LET out == feat_ret.value.entity_position_ids
            positions == feat_call.item.entity_position_ids
            entity_count == Len(feat_call.item.entity_ids)
        IN  /\ DOMAIN out = 0..(max_entity_length - 1)
            /\ \A r \in 0..(max_entity_length - 1) :
                   /\ DOMAIN out[r] = 0..(max_mention_length - 1)
                   /\ \A c \in 0..(max_mention_length - 1) :
                          IF r < entity_count
                          THEN IF positions[r + 1][c + 1] = -1
                               THEN out[r][c] = -1
                               ELSE out[r][c] = positions[r + 1][c + 1] + 1
                          ELSE out[r][c] = -1

\* one entity in e2e mode whose mention covers word 0 only: the row reads (1, -1) and
\* the row after it is all -1
C15_Witness ==
    /\ EntityReturned
    /\ E2EMode
    /\ feat_call.item.entity_position_ids = <<<<0, -1>>>>
    /\ feat_ret.value.entity_position_ids[0][0] = 1
    /\ feat_ret.value.entity_position_ids[0][1] = -1
    /\ feat_ret.value.entity_position_ids[1][0] = -1

\* C16: the worker-crashed error is never raised while a batch the worker pushed is
\* still undelivered: when the consumer raises it, every pushed batch has been yielded
C16_DeliveredBeforeError ==
    (exc = "RuntimeError" /\ pc \in {"terminate", "close", "ended"}) =>
        /\ received = pushed
        /\ output_queue = <<>>

\* the get timed out on an empty queue, then the worker pushed its only batch and
\* exited, then is_alive() was read: the error is raised over a queue holding the batch
C16_Witness ==
    /\ exc = "RuntimeError"
    /\ pc = "terminate"
    /\ worker = "exited"
    /\ Len(pushed) = 1
    /\ received = <<>>
    /\ Len(output_queue) = 1

(***************************************************************************)
(* The generator over an endless source.  create_iterator never stops and  *)
(* never yields an example the feature functions raise on: it repeats the  *)
(* non-faulting examples in a fixed rotation.  The consumer keeps pulling. *)
(* Here pulled is the iterator's position in its rotation, and the         *)
(* histories pushed and received, which would grow for ever, are not kept. *)
(***************************************************************************)
\* the examples neither worker class raises on
EndlessExamples ==
    {e \in SourceExamples :
        /\ ~WordFeaturesRaise(e.word_ids)
        /\ ~EntityFeaturesRaise(e)
        /\ ~E2EEntityFeaturesRaise(e)}

\* one period of the endless iterator: the examples above in a fixed order
EndlessSource ==
    CHOOSE f \in [1..Cardinality(EndlessExamples) -> EndlessExamples] :
        \A i, j \in DOMAIN f : i # j => f[i] # f[j]

\* lines 76-87 on the endless iterator: the next example of the rotation is pulled,
\* turned into features and buffered
EndlessItem ==
    /\ worker = "alive"
    /\ wpc = "loop"
    /\ LET item == EndlessSource[pulled + 1]
       IN  \E word_feat \in WordFeatureShapes[item.word_ids, worker_func.masked_lm_prob,
                                                worker_func.whole_word_masking],
              entity_feat \in EntityFeatureShapes[worker_func.worker_cls, item,
                                                   worker_func.masked_entity_prob] :
            LET word_len == NextMaxWordLen(max_word_len, item)
                entity_len == NextMaxEntityLen(max_entity_len, item)
                b == Append(buf, BufEntry(pulled + 1, item, word_feat, entity_feat))
            IN  /\ max_word_len' = word_len
                /\ max_entity_len' = entity_len
                /\ buf' = b
                /\ IF BufferFull(b)
                   THEN batch' = StackBatch(b, word_len, entity_len) /\ wpc' = "put"
                   ELSE batch' = batch /\ wpc' = "loop"
    /\ pulled' = (pulled + 1) % Len(EndlessSource)
    /\ UNCHANGED <<gvars, output_queue, queue_state, worker, pushed, received, fvars>>

\* lines 88-92: the blocking put, then the reset of the buffer and the maxima
EndlessPut ==
    /\ worker = "alive"
    /\ wpc = "put"
    /\ CanPut(output_queue, queue_size)
    /\ output_queue' = Put(output_queue, batch)
    /\ buf' = <<>>
    /\ max_word_len' = 1
    /\ max_entity_len' = 1
    /\ wpc' = "loop"
    /\ UNCHANGED <<gvars, queue_state, worker, batch, pulled, pushed, received, fvars>>

\* line 37: output_queue.get(True, 1) returns a batch, which is yielded
EndlessGet ==
    /\ pc = "get"
    /\ output_queue # <<>>
    /\ output_queue' = Tail(output_queue)
    /\ pc' = "yield"
    /\ UNCHANGED <<exc, mode, worker_func, queue_size, queue_state, worker, wvars,
                   pushed, received, fvars>>

EndlessConsumerStep ==
    \/ EndlessGet
    \/ GetEmpty
    \/ CheckAlive
    \/ Resume

EndlessWorkerStep ==
    \/ WorkerInit
    \/ EndlessItem
    \/ EndlessPut

NextEndless ==
    \/ Construct
    \/ GenerateBatches
    \/ EndlessConsumerStep
    \/ EndlessWorkerStep

\* both processes are scheduled: weak fairness of the consumer's and the worker's steps
EndlessSpec ==
    /\ Init
    /\ [][NextEndless]_vars
    /\ WF_vars(EndlessConsumerStep)
    /\ WF_vars(EndlessWorkerStep)

\* C17: with an endless source, a worker that does not fault and a consumer that keeps
\* pulling, the system never deadlocks, the worker-crashed error is never raised,
\* every pull eventually yields a batch, and a batch is received again and again
C17_EndlessProgress ==
    /\ [](exc = "none" /\ pc \notin {"terminate", "close", "ended"})
    /\ [](worker = "alive" => ENABLED NextEndless)
    /\ (pc = "get") ~> (pc = "yield")
    /\ (pc = "yield") ~> (pc = "get")

\* the consumer holds a batch while the queue is full again and the worker waits in
\* put with the next batch, the iterator being in its second round
C17_Witness ==
    /\ pc = "yield"
    /\ worker = "alive"
    /\ wpc = "put"
    /\ queue_size = 2
    /\ Len(output_queue) = 2
    /\ worker_func.batch_size = 2
    /\ IndicesOf(batch) # IndicesOf(output_queue[1])

\* C18: without whole_word_masking, with masked_lm_prob # 0 and at least one token,
\* exactly min(word_count, max(1, round(word_count * masked_lm_prob))) positions are
\* labeled
C18_ExactCountPerToken ==
    (/\ WordReturned
     /\ ~feat_call.whole_word_masking
     /\ feat_call.masked_lm_prob # 0
     /\ Len(feat_call.word_ids) >= 1) =>
        LET word_count == Len(feat_call.word_ids)
        IN  Cardinality(LabeledPositions(feat_ret.value))
                = Min(word_count, Max(1, NearestInt(word_count, feat_call.masked_lm_prob)))

\* "luke ##s luke" at probability 3/4 without whole_word_masking: round(2.25) = 2
\* positions are labeled, the '##' piece without the token before it
C18_Witness ==
    /\ WordReturned
    /\ ~feat_call.whole_word_masking
    /\ feat_call.masked_lm_prob = 3
    /\ feat_call.word_ids = <<3, 4, 3>>
    /\ LabeledPositions(feat_ret.value) = {2, 3}

\* the unmasked padded sequence at position i: the start marker, the tokens, the end
\* marker, then zeros
UnmaskedAt(word_ids, i) ==
    IF i = 0 THEN cls_id
    ELSE IF i <= Len(word_ids) THEN word_ids[i]
    ELSE IF i = Len(word_ids) + 1 THEN sep_id
    ELSE 0

\* C19: the label of every labeled position is the original token id of that
\* position, and every position that is not labeled (tokens left alone, both markers,
\* padding) holds in word_ids what the unmasked padded sequence holds
C19_LabelsAndFrame ==
    WordReturned =>
        LET ret == feat_ret.value
            labeled == IF "masked_lm_labels" \in DOMAIN ret THEN LabeledPositions(ret)
                       ELSE {}
        IN  \A i \in 0..(max_seq_length - 1) :
                IF i \in labeled
                THEN ret.masked_lm_labels[i] = UnmaskedAt(feat_call.word_ids, i)
                ELSE ret.word_ids[i] = UnmaskedAt(feat_call.word_ids, i)

\* "luke ##s" with position 1 labeled and replaced by a random token other than the
\* original: the label still reads luke, and position 2 and the markers are untouched
C19_Witness ==
    /\ WordReturned
    /\ feat_call.word_ids = <<3, 4>>
    /\ "masked_lm_labels" \in DOMAIN feat_ret.value
    /\ LabeledPositions(feat_ret.value) = {1}
    /\ feat_ret.value.masked_lm_labels[1] = 3
    /\ feat_ret.value.word_ids[1] = 4
    /\ feat_ret.value.word_ids[2] = 4

====
